---- MODULE Spec2Model ----
(***************************************************************************)
(* Model of python_scripts/phase_one.py: the FastScheduler, the Session   *)
(* registry of SessionManager, the origination tick, the event dispatcher  *)
(* with its handlers, and the run loop with its shutdown path.             *)
(***************************************************************************)
EXTENDS Integers, Sequences, FiniteSets, TLC

\* ------------------------------------------------------------------ bounds
MaxRate == 2
MaxLimit == 2
MaxMaxSessions == 2
MaxTimeRate == 1
MaxSess == 2
MaxLegs == 1
MaxCount == 2
MaxTime == 1
MaxPaused == 2
MaxPeerLegs == 2
MaxRandom == 2
MaxDuration == 1
MaxDtmfDelay == 1
MaxSigs == 1

\* ------------------------------------------------------------------ values
\* A header that is absent from an event (getHeader returns None).
NoId == 0
\* run has raised nothing.
NoExc == "None"
\* The ids of the legs the switch creates on its own (bridged peer legs and
\* foreign calls); uuid1 hands out 1, 2, ... to the sessions of the run.
LegIds == {-k : k \in 1..MaxLegs}
Causes == {"NORMAL_CLEARING", "USER_BUSY"}
\* The values of the option dtmf_seq: unset, and a sequence of digits.
DtmfSeqs == {"", "12"}

VARIABLES
    rate, limit, max_sessions, time_rate,
    random, duration, dtmf_seq, dtmf_delay,
    sessions, sess, peer_sessions, hangup_causes,
    total_originated_sessions, total_answered_sessions, total_failed_sessions,
    terminate, paused, con, queue, now,
    pc, exc, fr_now, e,
    uuids, originate_cmds, hupall_cmds, api,
    answer_seen, ans_credit, fail_credit, sigint

cfgvars == <<rate, limit, max_sessions, time_rate,
            random, duration, dtmf_seq, dtmf_delay>>
mgrvars == <<sessions, sess, peer_sessions, hangup_causes,
             total_originated_sessions, total_answered_sessions,
             total_failed_sessions, terminate, paused, con, queue,
             uuids, originate_cmds, hupall_cmds>>
creditvars == <<answer_seen, ans_credit, fail_credit>>
ghostvars == <<creditvars, sigint>>
vars == <<cfgvars, mgrvars, ghostvars, now, pc, exc, fr_now, e, api>>

\* ------------------------------------------------------------------ Session
\* Session.__init__: a pending session.
Session(uuid) ==
    [uuid |-> uuid, partner_uuid |-> NoId, created |-> FALSE, answered |-> FALSE,
     bert_sync_lost_cnt |-> 0, bert_timeout |-> FALSE]

\* A command sent with con.api by the handler of an event: its name, the
\* channel id it addresses, the channel variable it sets or the digits it
\* sends, if any, and its delay in seconds, if any.
Cmd(c, u, v, d) == [cmd |-> c, uuid |-> u, var |-> v, delay |-> d]

\* The SessionManager object as a record of its fields; api holds the
\* commands sent over the connection since the event at hand arrived, and a
\* handler appends to it; randint is the value that random.randint returns.
self ==
    [sessions |-> sessions, sess |-> sess, peer_sessions |-> peer_sessions,
     hangup_causes |-> hangup_causes,
     total_originated_sessions |-> total_originated_sessions,
     total_answered_sessions |-> total_answered_sessions,
     total_failed_sessions |-> total_failed_sessions,
     terminate |-> terminate, paused |-> paused, con |-> con, queue |-> queue,
     uuids |-> uuids,
     originate_cmds |-> originate_cmds, hupall_cmds |-> hupall_cmds,
     api |-> api,
     randint |-> random,
     raised |-> FALSE]

\* Writes the fields of the record m back to the object.
Store(m) ==
    /\ sessions' = m.sessions
    /\ sess' = m.sess
    /\ peer_sessions' = m.peer_sessions
    /\ hangup_causes' = m.hangup_causes
    /\ total_originated_sessions' = m.total_originated_sessions
    /\ total_answered_sessions' = m.total_answered_sessions
    /\ total_failed_sessions' = m.total_failed_sessions
    /\ terminate' = m.terminate
    /\ paused' = m.paused
    /\ con' = m.con
    /\ queue' = m.queue
    /\ uuids' = m.uuids
    /\ originate_cmds' = m.originate_cmds
    /\ hupall_cmds' = m.hupall_cmds
    /\ api' = m.api

\* ------------------------------------------------------------------ scheduler
\* sched.enter: the queue ordered by due time, ties by insertion order.
RECURSIVE InsertSorted(_, _)
InsertSorted(q, t) ==
    IF q = <<>> THEN <<t>>
    ELSE IF t < Head(q) THEN <<t>> \o q
    ELSE <<Head(q)>> \o InsertSorted(Tail(q), t)

enter(q, clock, delay) == InsertSorted(q, clock + delay)

\* ------------------------------------------------------------------ connection
\* SessionManager.reconnect.  ok is the outcome of the one fresh connection
\* attempt.  On failure line 336 reads the name logger, which is bound
\* nowhere in the method or the module: the NameError leaves the method
\* before line 337 sets the terminate flag.
reconnect_sets_terminate(m, ok) ==
    IF m.con THEN m
    ELSE IF ok THEN [m EXCEPT !.con = TRUE]
    ELSE [m EXCEPT !.terminate = TRUE]

reconnect(m, ok) ==
    IF m.con THEN m
    ELSE IF ok THEN [m EXCEPT !.con = TRUE]
    ELSE [m EXCEPT !.raised = TRUE]

\* SessionManager.hupall
hupall(m) == [m EXCEPT !.hupall_cmds = @ + 1]

\* ------------------------------------------------------------------ tick
\* uuid.uuid1(): an id never handed out before; uuids counts the calls.
fresh_uuid(m) == m.uuids + 1

\* originate_loop without the test of line 185.
RECURSIVE originate_loop_nolimit(_, _, _)
originate_loop_nolimit(m, i, sesscnt) ==
    IF i >= rate THEN m
    ELSE LET u == m.uuids + 1
             m1 == [m EXCEPT !.uuids = u,
                             !.sessions = @ \cup {u},
                             !.sess = [x \in DOMAIN m.sess \cup {u} |->
                                         IF x = u THEN Session(u) ELSE m.sess[x]],
                             !.originate_cmds = @ + 1]
         IN originate_loop_nolimit(m1, i + 1, sesscnt + 1)

\* The loop of originate_sessions, lines 184-194, from iteration i on.
RECURSIVE originate_loop(_, _, _)
originate_loop(m, i, sesscnt) ==
    IF i >= rate THEN m
    ELSE IF sesscnt >= limit THEN m
    ELSE LET u == fresh_uuid(m)
             m1 == [m EXCEPT !.uuids = u,
                             !.sessions = @ \cup {u},
                             !.sess = [x \in DOMAIN m.sess \cup {u} |->
                                         IF x = u THEN Session(u) ELSE m.sess[x]],
                             !.originate_cmds = @ + 1]
         IN originate_loop(m1, i + 1, sesscnt + 1)

\* The states in which a KeyboardInterrupt can leave the loop of lines
\* 184-194 from iteration i on: before an iteration, or between the insertion
\* of line 190 and the command of line 191.
RECURSIVE originate_loop_interrupted(_, _, _)
originate_loop_interrupted(m, i, sesscnt) ==
    IF i >= rate THEN {m}
    ELSE IF sesscnt >= limit THEN {m}
    ELSE LET u == fresh_uuid(m)
             m1 == [m EXCEPT !.uuids = u,
                             !.sessions = @ \cup {u},
                             !.sess = [x \in DOMAIN m.sess \cup {u} |->
                                         IF x = u THEN Session(u) ELSE m.sess[x]]]
             m2 == [m1 EXCEPT !.originate_cmds = @ + 1]
         IN {m, m1} \cup originate_loop_interrupted(m2, i + 1, sesscnt + 1)

\* SessionManager.pause_resume_calls, the SIGTSTP handler (line 122).
pause_resume_calls(m) ==
    IF m.paused # 0 THEN [m EXCEPT !.paused = 0] ELSE [m EXCEPT !.paused = 1]

\* n deliveries of SIGTSTP in a row.
RECURSIVE signals(_, _)
signals(m, n) == IF n = 0 THEN m ELSE signals(pause_resume_calls(m), n - 1)

\* originate_sessions without the paused branch of lines 170-175.
originate_sessions_unpaused(m, clock, ok, sig) ==
    LET m1 == IF ~m.con THEN reconnect(m, ok) ELSE m
    IN IF m1.raised THEN m1
       ELSE IF max_sessions # 0 /\ m1.total_originated_sessions >= max_sessions
       THEN m1
       ELSE LET m2 == originate_loop(m1, 0, Cardinality(m1.sessions))
            IN [m2 EXCEPT !.queue = enter(m2.queue, clock, time_rate)]

\* SessionManager.originate_sessions at clock time clock.  The signal handler
\* runs between two bytecodes of the tick: sig is the number of SIGTSTP
\* delivered after the test of line 170 and, in the paused branch, before
\* line 173 reads paused (one delivered later in the tick is a delivery
\* after the tick, or is overwritten by the store of line 173).
originate_sessions(m, clock, ok, sig) ==
    IF m.paused # 0
    THEN [m EXCEPT !.paused = signals(m, sig).paused + 1,
                   !.queue = enter(m.queue, clock, 1)]
    ELSE LET m0 == signals(m, sig)
             m1 == IF ~m0.con THEN reconnect(m0, ok) ELSE m0
         IN IF m1.raised THEN m1
            ELSE IF max_sessions # 0 /\ m1.total_originated_sessions >= max_sessions
            THEN m1
            ELSE LET m2 == originate_loop(m1, 0, Cardinality(m1.sessions))
                 IN [m2 EXCEPT !.queue = enter(m2.queue, clock, time_rate)]

\* The states in which a KeyboardInterrupt can leave the paused branch of
\* originate_sessions (lines 170-175) when up to sig SIGTSTP arrive in it: k
\* of them before line 173 reads self.paused, and j of the others after it has
\* stored the sum, before the sched.enter of line 174 or after it.
paused_tick_interrupted(m, clock, sig) ==
    UNION {LET a == signals(m, k)
               b == [a EXCEPT !.paused = a.paused + 1]
           IN {a} \cup UNION {{signals(b, j),
                               [signals(b, j) EXCEPT !.queue = enter(m.queue, clock, 1)]} :
                                  j \in 0..(sig - k)} :
              k \in 0..sig}

\* The states in which a KeyboardInterrupt can leave originate_sessions: at
\* any statement of it, the return after the sched.enter of line 174 or of
\* line 198 among them. Past line 170 the unpaused branch never reads
\* self.paused, so there a SIGTSTP has the same effect wherever it arrives.
originate_sessions_interrupted(m, clock, ok, sig) ==
    IF m.paused # 0
    THEN paused_tick_interrupted(m, clock, sig)
    ELSE LET m0 == signals(m, sig)
             m1 == IF ~m0.con THEN reconnect(m0, ok) ELSE m0
         IN IF m1.raised THEN {m0}
            ELSE IF max_sessions # 0 /\ m1.total_originated_sessions >= max_sessions
            THEN {m0, m1}
            ELSE {m0, originate_sessions(m, clock, ok, sig)}
                 \cup originate_loop_interrupted(m1, 0, Cardinality(m1.sessions))

\* ------------------------------------------------------------------ events
\* The event names the model delivers: the keys of ev_handlers and one name
\* that is no key of it.
EvNames == {"CHANNEL_ORIGINATE", "CHANNEL_CREATE", "CHANNEL_ANSWER",
            "CHANNEL_BRIDGE", "CHANNEL_HANGUP", "SERVER_DISCONNECTED",
            "CUSTOM", "HEARTBEAT"}
\* The keys of the table custom_ev_handlers, lines 117-120.
CustomNames == {"mod_bert::timeout", "mod_bert::lost_sync"}
NoEvent == [name |-> "None", uuid |-> NoId, xhdr |-> NoId, cause |-> "", sub |-> ""]
Event(n, u, x, c, s) == [name |-> n, uuid |-> u, xhdr |-> x, cause |-> c, sub |-> s]

\* SessionManager.handle_create
handle_create(m, ev) ==
    IF ev.uuid \in m.sessions THEN m
    ELSE IF ev.xhdr = NoId THEN m
    ELSE IF ev.xhdr \notin m.sessions THEN m
    ELSE [m EXCEPT !.sess[ev.xhdr].partner_uuid = ev.uuid,
                   !.peer_sessions = [k \in DOMAIN m.peer_sessions \cup {ev.uuid} |->
                                        IF k = ev.uuid THEN ev.xhdr
                                        ELSE m.peer_sessions[k]],
                   !.api = Append(@, Cmd("uuid_set_var", ev.uuid, "test_id", 0))]

\* handle_originate without the test of line 239.
handle_originate_foreign(m, ev) ==
    [m EXCEPT !.total_originated_sessions = @ + 1,
              !.api = Append(@, Cmd("sched_hangup", ev.uuid, "", duration))]

\* SessionManager.handle_originate.  random.randint(random, duration) raises
\* ValueError when random > duration, after the assignments of lines 243-244
\* and before any command.  report (lines 255-256) only logs.
handle_originate(m, ev) ==
    IF ev.uuid \notin m.sessions THEN m
    ELSE LET m1 == [m EXCEPT !.sess[ev.uuid].created = TRUE,
                             !.total_originated_sessions = @ + 1]
         IN IF random # 0 /\ random > duration THEN [m1 EXCEPT !.raised = TRUE]
            ELSE LET d == IF random # 0 THEN m.randint ELSE duration
                     m2 == [m1 EXCEPT !.api =
                                Append(@, Cmd("sched_hangup", ev.uuid, "", d))]
                 IN IF dtmf_seq # ""
                    THEN [m2 EXCEPT !.api =
                             Append(@, Cmd("sched_api uuid_send_dtmf", ev.uuid,
                                           dtmf_seq, dtmf_delay))]
                    ELSE m2

\* handle_answer without the assignment of line 264.
handle_answer_noflag(m, ev) ==
    IF ev.uuid \notin m.sessions THEN m
    ELSE [m EXCEPT !.total_answered_sessions = @ + 1]

\* SessionManager.handle_answer
handle_answer(m, ev) ==
    IF ev.uuid \notin m.sessions THEN m
    ELSE [m EXCEPT !.total_answered_sessions = @ + 1,
                   !.sess[ev.uuid].answered = TRUE]

\* handle_hangup without the test of line 280 that the registry is empty.
handle_hangup_nonempty(m, ev) ==
    IF ev.uuid \notin m.sessions THEN m
    ELSE LET m1 == [m EXCEPT
                      !.hangup_causes =
                          [c \in DOMAIN m.hangup_causes \cup {ev.cause} |->
                             IF c \in DOMAIN m.hangup_causes
                             THEN m.hangup_causes[c] + (IF c = ev.cause THEN 1 ELSE 0)
                             ELSE 1],
                      !.total_failed_sessions =
                          IF ~m.sess[ev.uuid].answered THEN @ + 1 ELSE @,
                      !.sessions = @ \ {ev.uuid}]
         IN IF max_sessions # 0
               /\ m1.total_originated_sessions >= max_sessions
            THEN [m1 EXCEPT !.terminate = TRUE]
            ELSE m1

\* handle_hangup with line 272 in both branches of the test of line 271.
handle_hangup_setone(m, ev) ==
    IF ev.uuid \notin m.sessions THEN m
    ELSE LET m1 == [m EXCEPT
                      !.hangup_causes =
                          [c \in DOMAIN m.hangup_causes \cup {ev.cause} |->
                             IF c = ev.cause THEN 1 ELSE m.hangup_causes[c]],
                      !.total_failed_sessions =
                          IF ~m.sess[ev.uuid].answered THEN @ + 1 ELSE @,
                      !.sessions = @ \ {ev.uuid}]
         IN IF max_sessions # 0
               /\ m1.total_originated_sessions >= max_sessions
               /\ Cardinality(m1.sessions) = 0
            THEN [m1 EXCEPT !.terminate = TRUE]
            ELSE m1

\* SessionManager.handle_hangup
handle_hangup(m, ev) ==
    IF ev.uuid \notin m.sessions THEN m
    ELSE LET m1 == [m EXCEPT
                      !.hangup_causes =
                          [c \in DOMAIN m.hangup_causes \cup {ev.cause} |->
                             IF c \in DOMAIN m.hangup_causes
                             THEN m.hangup_causes[c] + (IF c = ev.cause THEN 1 ELSE 0)
                             ELSE 1],
                      !.total_failed_sessions =
                          IF ~m.sess[ev.uuid].answered THEN @ + 1 ELSE @,
                      !.sessions = @ \ {ev.uuid}]
         IN IF max_sessions # 0
               /\ m1.total_originated_sessions >= max_sessions
               /\ Cardinality(m1.sessions) = 0
            THEN [m1 EXCEPT !.terminate = TRUE]
            ELSE m1

\* handle_bert_lost_sync without the test of line 295.
handle_bert_lost_sync_always(m, ev) ==
    IF ev.uuid \notin m.sessions /\ ev.uuid \notin DOMAIN m.peer_sessions THEN m
    ELSE LET s == IF ev.uuid \notin m.sessions THEN m.peer_sessions[ev.uuid]
                  ELSE ev.uuid
             partner_uuid == IF ev.uuid \notin m.sessions THEN m.sess[s].uuid
                             ELSE m.sess[s].partner_uuid
             m1 == [m EXCEPT !.sess[s].bert_sync_lost_cnt = @ + 1]
         IN [m1 EXCEPT !.api = @ \o <<Cmd("uuid_set_var", ev.uuid, "bert_sync_lost", 0),
                                       Cmd("uuid_set_var", partner_uuid,
                                           "bert_sync_lost", 0)>>]

\* SessionManager.handle_bert_lost_sync: s is the key of the Session object
\* the event resolves to.
handle_bert_lost_sync(m, ev) ==
    IF ev.uuid \notin m.sessions /\ ev.uuid \notin DOMAIN m.peer_sessions THEN m
    ELSE LET s == IF ev.uuid \notin m.sessions THEN m.peer_sessions[ev.uuid]
                  ELSE ev.uuid
             partner_uuid == IF ev.uuid \notin m.sessions THEN m.sess[s].uuid
                             ELSE m.sess[s].partner_uuid
             m1 == [m EXCEPT !.sess[s].bert_sync_lost_cnt = @ + 1]
         IN IF m1.sess[s].bert_sync_lost_cnt > 1 THEN m1
            ELSE [m1 EXCEPT !.api = @ \o
                                <<Cmd("uuid_set_var", ev.uuid, "bert_sync_lost", 0),
                                  Cmd("uuid_set_var", partner_uuid,
                                      "bert_sync_lost", 0)>>]

\* SessionManager.handle_bert_timeout
handle_bert_timeout(m, ev) ==
    IF ev.uuid \notin m.sessions THEN m
    ELSE [m EXCEPT !.sess[ev.uuid].bert_timeout = TRUE]

\* SessionManager.handle_disconnect is declared with the single parameter
\* self, and process_event calls every handler with the event: the call
\* raises TypeError before the body (line 310) runs.
handle_disconnect(m, ev) == [m EXCEPT !.raised = TRUE]

\* SessionManager.handle_custom: a failure of the sub-handler is caught here
\* (lines 216-217); what the sub-handler had assigned stays.
handle_custom(m, ev) ==
    IF ev.sub = "mod_bert::timeout"
    THEN [handle_bert_timeout(m, ev) EXCEPT !.raised = FALSE]
    ELSE IF ev.sub = "mod_bert::lost_sync"
    THEN [handle_bert_lost_sync(m, ev) EXCEPT !.raised = FALSE]
    ELSE m

\* The table ev_handlers, lines 108-116.
ev_handlers(m, ev) ==
    CASE ev.name = "CHANNEL_ORIGINATE" -> handle_originate(m, ev)
      [] ev.name = "CHANNEL_CREATE" -> handle_create(m, ev)
      [] ev.name = "CHANNEL_ANSWER" -> handle_answer(m, ev)
      [] ev.name = "CHANNEL_BRIDGE" -> handle_answer(m, ev)
      [] ev.name = "CHANNEL_HANGUP" -> handle_hangup(m, ev)
      [] ev.name = "SERVER_DISCONNECTED" -> handle_disconnect(m, ev)
      [] ev.name = "CUSTOM" -> handle_custom(m, ev)

HandledNames == EvNames \ {"HEARTBEAT"}

\* Reference counting: a Session that neither the registry nor the secondary
\* mapping refers to is freed.
collect(m) ==
    LET live == m.sessions \cup {m.peer_sessions[k] : k \in DOMAIN m.peer_sessions}
    IN [m EXCEPT !.sess = [x \in DOMAIN m.sess \cap live |-> m.sess[x]]]

\* process_event without the try statement of lines 203-206.
process_event_notry(m, ev) ==
    IF ev.name \in HandledNames
    THEN LET r == ev_handlers(m, ev) IN IF r.raised THEN r ELSE collect(r)
    ELSE m

\* SessionManager.process_event: the handler's failure is caught and logged
\* (lines 205-206); what the handler had assigned before it raised stays.
process_event(m, ev) ==
    IF ev.name \in HandledNames
    THEN collect([ev_handlers(m, ev) EXCEPT !.raised = FALSE])
    ELSE m

\* ------------------------------------------------------------------ interrupts
\* KeyboardInterrupt is raised between two bytecodes of whatever the main
\* thread runs and is no Exception: lines 205 and 216 do not catch it.  For
\* every handler, the states in which it can leave the handler: after any
\* prefix of the handler's assignments and commands.
handle_create_interrupted(m, ev) ==
    IF ev.uuid \in m.sessions \/ ev.xhdr = NoId \/ ev.xhdr \notin m.sessions THEN {m}
    ELSE LET m1 == [m EXCEPT !.sess[ev.xhdr].partner_uuid = ev.uuid]
             m2 == [m1 EXCEPT !.peer_sessions =
                        [k \in DOMAIN m.peer_sessions \cup {ev.uuid} |->
                           IF k = ev.uuid THEN ev.xhdr ELSE m.peer_sessions[k]]]
         IN {m, m1, m2, handle_create(m, ev)}

handle_originate_interrupted(m, ev) ==
    IF ev.uuid \notin m.sessions THEN {m}
    ELSE LET m1 == [m EXCEPT !.sess[ev.uuid].created = TRUE]
             m2 == [m1 EXCEPT !.total_originated_sessions = @ + 1]
             d == IF random # 0 THEN m.randint ELSE duration
             m3 == [m2 EXCEPT !.api = Append(@, Cmd("sched_hangup", ev.uuid, "", d))]
         IN IF random # 0 /\ random > duration THEN {m, m1, m2}
            ELSE {m, m1, m2, m3, handle_originate(m, ev)}

handle_answer_interrupted(m, ev) ==
    IF ev.uuid \notin m.sessions THEN {m}
    ELSE {m, [m EXCEPT !.total_answered_sessions = @ + 1], handle_answer(m, ev)}

handle_hangup_interrupted(m, ev) ==
    IF ev.uuid \notin m.sessions THEN {m}
    ELSE LET m1 == [m EXCEPT !.hangup_causes =
                        [c \in DOMAIN m.hangup_causes \cup {ev.cause} |->
                           IF c \in DOMAIN m.hangup_causes
                           THEN m.hangup_causes[c] + (IF c = ev.cause THEN 1 ELSE 0)
                           ELSE 1]]
             m2 == [m1 EXCEPT !.total_failed_sessions =
                        IF ~m.sess[ev.uuid].answered THEN @ + 1 ELSE @]
             m3 == [m2 EXCEPT !.sessions = @ \ {ev.uuid}]
         IN {m, m1, m2, m3, handle_hangup(m, ev)}

handle_bert_lost_sync_interrupted(m, ev) ==
    IF ev.uuid \notin m.sessions /\ ev.uuid \notin DOMAIN m.peer_sessions THEN {m}
    ELSE LET s == IF ev.uuid \notin m.sessions THEN m.peer_sessions[ev.uuid]
                  ELSE ev.uuid
             m1 == [m EXCEPT !.sess[s].bert_sync_lost_cnt = @ + 1]
             m2 == [m1 EXCEPT !.api =
                        Append(@, Cmd("uuid_set_var", ev.uuid, "bert_sync_lost", 0))]
         IN IF m1.sess[s].bert_sync_lost_cnt > 1 THEN {m, m1}
            ELSE {m, m1, m2, handle_bert_lost_sync(m, ev)}

handle_bert_timeout_interrupted(m, ev) == {m, handle_bert_timeout(m, ev)}

\* process_event left by a KeyboardInterrupt.  handle_disconnect fails
\* before it assigns, and an event without a handler is only logged.
process_event_interrupted(m, ev) ==
    LET cut ==
          CASE ev.name = "CHANNEL_ORIGINATE" -> handle_originate_interrupted(m, ev)
            [] ev.name = "CHANNEL_CREATE" -> handle_create_interrupted(m, ev)
            [] ev.name \in {"CHANNEL_ANSWER", "CHANNEL_BRIDGE"} ->
                   handle_answer_interrupted(m, ev)
            [] ev.name = "CHANNEL_HANGUP" -> handle_hangup_interrupted(m, ev)
            [] ev.name = "CUSTOM" /\ ev.sub = "mod_bert::timeout" ->
                   handle_bert_timeout_interrupted(m, ev)
            [] ev.name = "CUSTOM" /\ ev.sub = "mod_bert::lost_sync" ->
                   handle_bert_lost_sync_interrupted(m, ev)
            [] OTHER -> {m}
    IN {collect(x) : x \in cut}

\* ------------------------------------------------------------------ inputs
\* The ids an event can name: every session ever requested and the legs the
\* switch creates on its own.
EventIds == (1..uuids) \cup LegIds

\* The call events, the disconnect event and the events without a handler
\* that the connection can deliver in the current state.
CallEvents ==
    {Event("CHANNEL_ORIGINATE", u, NoId, "", "") : u \in
        {x \in EventIds : total_originated_sessions < MaxCount}}
    \cup {Event("CHANNEL_CREATE", u, u, "", "") : u \in 1..uuids}
    \cup {Event("CHANNEL_CREATE", u, x, "", "") :
            u \in LegIds, x \in EventIds \cup {NoId}}
    \cup {Event(n, u, NoId, "", "") :
            n \in {"CHANNEL_ANSWER", "CHANNEL_BRIDGE"},
            u \in {x \in EventIds : total_answered_sessions < MaxCount}}
    \cup {Event("CHANNEL_HANGUP", u, NoId, c, "") : u \in EventIds, c \in Causes}
    \cup {Event("SERVER_DISCONNECTED", NoId, NoId, "", "")}
    \cup {Event("HEARTBEAT", NoId, NoId, "", "")}
    \cup {Event("CUSTOM", NoId, NoId, "", "other::sub")}

\* The mod_bert events the connection can deliver in the current state.
BertEvents ==
    {Event("CUSTOM", u, NoId, "", "mod_bert::timeout") : u \in EventIds}
    \cup {Event("CUSTOM", u, NoId, "", "mod_bert::lost_sync") : u \in
            {x \in EventIds :
                \A s \in DOMAIN sess : sess[s].bert_sync_lost_cnt < MaxCount}}

\* The legs of the runs with peer legs: a second leg besides the one of
\* LegIds, so that two legs can carry the same correlation id.
PeerLegIds == {-k : k \in 1..MaxPeerLegs}

\* The events of the second leg: its creation with the correlation id of a
\* session ever requested, and the mod_bert events addressed to it.
PeerEvents ==
    {Event("CHANNEL_CREATE", u, x, "", "") : u \in PeerLegIds \ LegIds, x \in 1..uuids}
    \cup {Event("CUSTOM", u, NoId, "", "mod_bert::timeout") : u \in PeerLegIds \ LegIds}
    \cup {Event("CUSTOM", u, NoId, "", "mod_bert::lost_sync") : u \in
            {x \in PeerLegIds \ LegIds :
                \A s \in DOMAIN sess : sess[s].bert_sync_lost_cnt < MaxCount}}

\* ------------------------------------------------------------------ Init
Init ==
    /\ rate \in 0..MaxRate
    /\ limit \in 0..MaxLimit
    /\ max_sessions \in 0..MaxMaxSessions
    /\ time_rate \in 0..MaxTimeRate
    /\ random \in 0..MaxRandom
    /\ duration \in 1..MaxDuration
    /\ dtmf_seq \in DtmfSeqs
    /\ dtmf_delay \in 1..MaxDtmfDelay
    /\ sessions = {}
    /\ sess = <<>>
    /\ peer_sessions = <<>>
    /\ hangup_causes = <<>>
    /\ total_originated_sessions = 0
    /\ total_answered_sessions = 0
    /\ total_failed_sessions = 0
    /\ terminate = FALSE
    /\ paused = 0
    /\ con = TRUE
    /\ queue = <<>>
    /\ now = 0
    /\ pc = "start"
    /\ exc = NoExc
    /\ fr_now = 0
    /\ e = NoEvent
    /\ uuids = 0
    /\ originate_cmds = 0
    /\ hupall_cmds = 0
    /\ api = <<>>
    /\ answer_seen = {}
    /\ ans_credit = {}
    /\ fail_credit = {}
    /\ sigint = FALSE

\* ------------------------------------------------------------------ run loop
\* run has returned or has raised; exc is what it raised: an Exception, which
\* main lets through, or KeyboardInterrupt, which main catches at line 417
\* before it reports.
Stopped == pc \in {"returned", "raised"}

\* The ids and the pause count the model can still hand out suffice for m.
WithinIds(m) == m.uuids <= MaxSess /\ m.paused <= MaxPaused

\* The values random.randint(random, duration) can return.
Draws == IF random # 0 /\ random <= duration THEN random..duration ELSE {random}

\* The except clause of run, lines 326-329: reconnect, hupall, re-raise.  A
\* failure of reconnect leaves the clause before hupall.
except_clause(m, ok) ==
    LET m1 == reconnect([m EXCEPT !.raised = FALSE], ok)
    IN IF m1.raised THEN m1 ELSE hupall(m1)

\* The states in which a KeyboardInterrupt can leave the except clause:
\* before reconnect, after the assignment of line 334, after hupall.
except_clause_interrupted(m, ok) ==
    LET m0 == [m EXCEPT !.raised = FALSE]
        m1 == reconnect(m0, ok)
    IN IF m1.raised THEN {m0} ELSE {m0, m1, hupall(m1)}

\* The connection is the environment's: it can drop while an operation
\* runs.  The states of S, each with the connection up or lost by then.
Dropped(S) == S \cup {[x EXCEPT !.con = FALSE] : x \in S}

\* The outcomes of the connection attempt that reconnect makes for m; it
\* makes none while the connection is up.
Attempts(m) == IF m.con THEN {TRUE} ELSE BOOLEAN

\* run is left through its except clause by a failure of the given kind:
\* the clause raises that failure again (line 329), or the NameError of its
\* own reconnect, or a KeyboardInterrupt that arrives in it.
Leave(m, kind) ==
    \E ok \in Attempts(m) :
       \/ LET r == except_clause(m, ok)
          IN Store(r) /\ pc' = "raised"
                      /\ exc' = IF r.raised THEN "Exception" ELSE kind
       \/ \E x \in except_clause_interrupted(m, ok) :
             Store(x) /\ pc' = "raised" /\ exc' = "KeyboardInterrupt"

\* run, line 316: the first tick, outside the try statement.
RunStart ==
    /\ pc = "start"
    /\ \E ok \in Attempts(self), sig \in 0..MaxSigs :
         LET m == originate_sessions(self, now, ok, sig)
         IN /\ WithinIds(m)
            /\ Store(m)
            /\ pc' = IF m.raised THEN "raised" ELSE "loop"
            /\ exc' = IF m.raised THEN "Exception" ELSE exc
    /\ UNCHANGED <<cfgvars, ghostvars, now, fr_now, e>>

\* fast_run, lines 57-58: the clock is read once.
FastRunEnter ==
    /\ pc = "loop"
    /\ pc' = "fast_run"
    /\ fr_now' = now
    /\ UNCHANGED <<cfgvars, mgrvars, ghostvars, now, exc, e, api>>

\* fast_run, lines 59-65: one iteration of the loop; the only action ever
\* queued is originate_sessions.  A failure of the tick leaves fast_run and
\* the loop of run for the except clause.  The local now is dead on return.
FastRunStep ==
    /\ pc = "fast_run"
    /\ IF queue # <<>> /\ fr_now >= Head(queue)
       THEN \E ok \in Attempts(self), sig \in 0..MaxSigs :
              LET m0 == [self EXCEPT !.queue = Tail(queue)]
                  m == originate_sessions(m0, now, ok, sig)
              IN /\ WithinIds(m)
                 /\ IF m.raised
                    THEN Leave(m, "Exception") /\ fr_now' = 0
                    ELSE /\ Store(m)
                         /\ pc' = "fast_run"
                         /\ UNCHANGED <<exc, fr_now>>
       ELSE /\ pc' = "recv"
            /\ fr_now' = 0
            /\ UNCHANGED <<mgrvars, exc, api>>
    /\ UNCHANGED <<cfgvars, ghostvars, now, e>>

\* The sessions for which an answer event has been handled, and those on
\* whose events the answered and the failed counter have moved, after the
\* handler of ev has taken the manager to x.
Credit(ev, x) ==
    <<IF /\ ev.name \in {"CHANNEL_ANSWER", "CHANNEL_BRIDGE"}
         /\ ev.uuid \in sessions
         /\ x.sess[ev.uuid].answered
      THEN answer_seen \cup {ev.uuid} ELSE answer_seen,
      IF x.total_answered_sessions # total_answered_sessions
      THEN ans_credit \cup {ev.uuid} ELSE ans_credit,
      IF x.total_failed_sessions # total_failed_sessions
      THEN fail_credit \cup {ev.uuid} ELSE fail_credit>>

Credited(c) == answer_seen' = c[1] /\ ans_credit' = c[2] /\ fail_credit' = c[3]

\* run, lines 320-323: recvEventTimed returns None, or an event of D that
\* process_event then handles.  A failure that process_event lets through
\* reaches the except clause.
RecvFrom(D) ==
    /\ pc = "recv"
    /\ \/ /\ e' = NoEvent
          /\ pc' = "loop"
          /\ UNCHANGED <<mgrvars, ghostvars, exc, api>>
       \/ /\ con
          /\ \E ev \in D, d \in Draws :
               LET m == process_event([self EXCEPT !.randint = d], ev)
               IN /\ e' = ev
                  /\ IF m.raised
                     THEN /\ Leave(m, "Exception")
                          /\ UNCHANGED ghostvars
                     ELSE /\ Store(m)
                          /\ pc' = "check"
                          /\ UNCHANGED <<exc, sigint>>
                          /\ Credited(Credit(ev, m))
    /\ UNCHANGED <<cfgvars, now, fr_now>>

\* The mod_bert handlers read and write only the bert fields of a Session:
\* the run of the call events is the same with and without them.
Recv == RecvFrom(CallEvents)

RecvBert == RecvFrom(CallEvents \cup BertEvents)

RecvPeer == RecvFrom(PeerEvents)

\* run, lines 324-325.  The local e is dead until line 320 binds it again.
Check ==
    /\ pc = "check"
    /\ pc' = IF terminate THEN "returned" ELSE "loop"
    /\ e' = NoEvent
    /\ api' = <<>>
    /\ UNCHANGED <<cfgvars, mgrvars, ghostvars, now, exc, fr_now>>

\* KeyboardInterrupt between two statements of the loop of run, the wait in
\* recvEventTimed among them: the except clause runs.  The locals of run and
\* of fast_run are dead.
Interrupt ==
    /\ pc \in {"loop", "fast_run", "recv", "check"}
    /\ Leave(self, "KeyboardInterrupt")
    /\ fr_now' = 0
    /\ e' = NoEvent
    /\ sigint' = TRUE
    /\ UNCHANGED <<cfgvars, creditvars, now>>

\* KeyboardInterrupt before or inside the first tick, line 316: outside the
\* try statement, so that the except clause does not run.
InterruptStart ==
    /\ pc = "start"
    /\ \E x \in Dropped({self} \cup
                       UNION {originate_sessions_interrupted(self, now, ok, sig) :
                                 ok \in Attempts(self), sig \in 0..MaxSigs}) :
         /\ WithinIds(x)
         /\ Store(x)
    /\ pc' = "raised"
    /\ exc' = "KeyboardInterrupt"
    /\ sigint' = TRUE
    /\ UNCHANGED <<cfgvars, creditvars, now, fr_now, e>>

\* KeyboardInterrupt inside the tick that fast_run runs at line 65, after
\* line 64 took it off the queue.
InterruptTick ==
    /\ pc = "fast_run"
    /\ queue # <<>>
    /\ fr_now >= Head(queue)
    /\ \E x \in Dropped(UNION {originate_sessions_interrupted(
                                    [self EXCEPT !.queue = Tail(queue)], now, ok, sig) :
                                 ok \in Attempts(self), sig \in 0..MaxSigs}) :
         /\ WithinIds(x)
         /\ Leave(x, "KeyboardInterrupt")
    /\ fr_now' = 0
    /\ sigint' = TRUE
    /\ UNCHANGED <<cfgvars, creditvars, now, e>>

\* The states in which a KeyboardInterrupt can leave process_event, for an
\* event of D, each with the sessions credited by then.
Interruptions(D) ==
    UNION {UNION {{<<x, Credit(ev, x)>> :
                     x \in process_event_interrupted([self EXCEPT !.randint = d], ev)} :
                  d \in Draws} :
           ev \in D}

\* KeyboardInterrupt inside process_event, line 323, for an event of D that
\* arrived while the connection was up.
InterruptIn(D) ==
    /\ pc = "recv"
    /\ con
    /\ \E o \in Interruptions(D) :
         /\ \E x \in Dropped({o[1]}) : Leave(x, "KeyboardInterrupt")
         /\ Credited(o[2])
    /\ sigint' = TRUE
    /\ UNCHANGED <<cfgvars, now, fr_now, e>>

InterruptEvent == InterruptIn(CallEvents)

InterruptBert == InterruptIn(CallEvents \cup BertEvents)

\* ------------------------------------------------------------------ environment
\* The pause flag and the clock are read by the scheduler and the tick only:
\* a change of them outside the tick is taken where the loop is about to run
\* the scheduler.
EnvPoint == pc \in {"start", "loop", "fast_run"}

\* SIGTSTP outside the tick.
PauseResume ==
    /\ EnvPoint
    /\ Store(pause_resume_calls(self))
    /\ UNCHANGED <<cfgvars, ghostvars, now, pc, exc, fr_now, e>>

\* The connection to the switch is lost, wherever the program is: con is
\* read by the tick, by the receive and by the reconnect of the except clause.
Disconnect ==
    /\ con
    /\ Store([self EXCEPT !.con = FALSE])
    /\ UNCHANGED <<cfgvars, ghostvars, now, pc, exc, fr_now, e>>

\* time.time() moves on.
Advance ==
    /\ EnvPoint
    /\ now < MaxTime
    /\ now' = now + 1
    /\ UNCHANGED <<cfgvars, mgrvars, ghostvars, pc, exc, fr_now, e, api>>

Next ==
    \/ RunStart
    \/ FastRunEnter
    \/ FastRunStep
    \/ Recv
    \/ Check
    \/ Interrupt
    \/ InterruptStart
    \/ InterruptTick
    \/ InterruptEvent
    \/ PauseResume
    \/ Disconnect
    \/ Advance

\* Every configuration.
Spec == Init /\ [][Next]_vars

\* The configurations with the options random and dtmf_seq unset, as by
\* default: handle_originate sends its one command and never fails.
PlainInit == Init /\ random = 0 /\ dtmf_seq = ""

\* Those of them with a tick every time unit.
SteadyInit == PlainInit /\ time_rate = 1

SteadySpec == SteadyInit /\ [][Next]_vars

\* The configurations with one session per tick, one at a time and one to
\* originate, and every value of the other options, random and dtmf_seq
\* among them.
OptInit == Init /\ rate = 1 /\ limit = 1 /\ max_sessions = 1 /\ time_rate = 1

\* The steps of the program when the connection delivers the mod_bert events
\* too, so that the sub-table of handle_custom is looked up with its own names.
OptNext ==
    \/ RunStart
    \/ FastRunEnter
    \/ FastRunStep
    \/ RecvBert
    \/ Check
    \/ Interrupt
    \/ InterruptStart
    \/ InterruptTick
    \/ InterruptBert
    \/ PauseResume
    \/ Disconnect
    \/ Advance

OptSpec == OptInit /\ [][OptNext]_vars

\* The configurations with one session per tick, every time_rate and the
\* options random and dtmf_seq unset, for the properties of the scheduler and
\* of the pause flag, which no test of the rate reads.
PauseInit == PlainInit /\ rate = 1

PauseSpec == PauseInit /\ [][Next]_vars

\* The steps of the run loop.
LoopStep == RunStart \/ FastRunEnter \/ FastRunStep \/ Recv \/ Check

\* A restriction of the configurations, for the properties of behaviours.
FairInit == SteadyInit /\ limit = 1

\* The run loop is the one thread of control: it keeps taking its steps.
FairSpec == FairInit /\ [][Next]_vars /\ WF_vars(LoopStep)

\* The run with the mod_bert events and two peer legs, for one session at a
\* time, in an environment that leaves the loop alone: the connection stays
\* up, no SIGINT arrives, and SIGTSTP arrives inside a tick only.
BertInit ==
    PlainInit /\ rate = 1 /\ limit = 1 /\ max_sessions = 0 /\ time_rate = 1

BertNext ==
    \/ RunStart
    \/ FastRunEnter
    \/ FastRunStep
    \/ RecvBert
    \/ RecvPeer
    \/ Check
    \/ Advance

BertSpec == BertInit /\ [][BertNext]_vars

\* ------------------------------------------------------------------ claims
\* The sessions that a hangup event removed from the registry.
Removed == (1..uuids) \ sessions

RECURSIVE SumOver(_, _)
SumOver(f, D) ==
    IF D = {} THEN 0
    ELSE LET c == CHOOSE x \in D : TRUE IN f[c] + SumOver(f, D \ {c})

\* The number of hangup events processed for sessions of the registry.
HangupCount == SumOver(hangup_causes, DOMAIN hangup_causes)

\* No KeyboardInterrupt has arrived (sigint records one, also when the
\* NameError of the except clause replaces it): the manager holds the outcome
\* of whole ticks and whole handlers, none cut short between two assignments.
Whole == ~sigint

\* The step of an event that process_event handles to its end.
EventStep == pc = "recv" /\ e' # NoEvent

\* The step of a hangup event for a session of the registry.
HangupStep == EventStep /\ e'.name = "CHANNEL_HANGUP" /\ e'.uuid \in sessions

\* C1: immediately after every origination tick (the first one of run and
\* those the scheduler runs) the registry holds at most limit sessions.
C1_LimitAfterTick ==
    [][(RunStart \/ FastRunStep) => Cardinality(sessions') <= limit]_vars

\* A tick refilled the registry up to the limit after a hangup, at a rate
\* above the limit.
C1_Witness ==
    /\ rate > limit
    /\ limit > 0
    /\ Cardinality(sessions) = limit
    /\ Removed # {}
    /\ uuids > limit

\* C2: with max_sessions = M > 0 the run never issues more than M
\* origination commands.
C2_OriginateAtMostMax ==
    max_sessions > 0 => originate_cmds <= max_sessions

\* C3: every key of the secondary mapping maps to a session that is still
\* in the primary registry.
C3_PeerInRegistry ==
    \A k \in DOMAIN peer_sessions : peer_sessions[k] \in sessions

\* C4: total_failed_sessions never exceeds total_originated_sessions.
C4_FailedLeOriginated ==
    total_failed_sessions <= total_originated_sessions

\* C5: for every session a hangup removed, exactly one of the counters
\* answered and failed was incremented on its behalf, and failed was iff no
\* answer event was processed for it while it was live; a hangup handled to
\* its end never leaves a session live that failed was incremented for.
C5_ExactlyOneCounter ==
    /\ \A u \in Removed :
         /\ (u \in ans_credit) # (u \in fail_credit)
         /\ (u \in fail_credit) <=> (u \notin answer_seen)
    /\ Whole => \A u \in sessions : u \notin fail_credit

\* One session was removed after an answer and another without one.
C5_Witness ==
    /\ \E u \in Removed : u \in answer_seen /\ u \in ans_credit
    /\ \E u \in Removed : u \notin answer_seen /\ u \in fail_credit

\* C6: once a SERVER_DISCONNECTED event went through process_event the
\* terminate flag is true.
C6_DisconnectTerminates ==
    (pc = "check" /\ e.name = "SERVER_DISCONNECTED") => terminate

\* C7: once the terminate flag is set the run loop eventually leaves the loop.
C7_TerminatingStops == terminate ~> Stopped

\* The flag was set by the hangup that completed max_sessions and the loop
\* has returned.
C7_Witness == terminate /\ pc = "returned" /\ sessions = {}

\* C8: when run has returned or raised, the shutdown pass has issued its one
\* hupall command.
C8_ShutdownPassBeforeStop ==
    pc = "returned" => hupall_cmds = 1

\* C9: a hangup event for a session of the registry, handled to its end,
\* removes the session and sets the terminate flag iff max_sessions > 0,
\* total_originated_sessions >= max_sessions and the registry is then empty,
\* and leaves the flag alone otherwise; with rate = limit = max_sessions = 2,
\* two sessions requested, two confirmations and two hangups without an
\* answer, all handled to their end: failed = 2, the registry is empty and
\* the flag is set.
C9_HangupTerminates ==
    /\ [][HangupStep =>
            /\ sessions' # sessions
            /\ sessions' \subseteq sessions
            /\ terminate' = IF max_sessions > 0
                               /\ total_originated_sessions' >= max_sessions
                               /\ sessions' = {}
                            THEN TRUE ELSE terminate]_vars
    /\ []((/\ Whole
           /\ rate = 2 /\ limit = 2 /\ max_sessions = 2
           /\ uuids = 2
           /\ total_originated_sessions = 2
           /\ total_answered_sessions = 0
           /\ HangupCount = 2)
          => (total_failed_sessions = 2 /\ sessions = {} /\ terminate))

\* The scenario of the claim has run to its end.
C9_Witness ==
    /\ rate = 2 /\ limit = 2 /\ max_sessions = 2
    /\ total_originated_sessions = 2
    /\ HangupCount = 2
    /\ total_failed_sessions = 2
    /\ sessions = {}
    /\ terminate

\* The handler of the event ev raises in the current state.
HandlerRaises(ev) == ev.name \in HandledNames /\ ev_handlers(self, ev).raised

\* ev has no handler: its name is in no table, or it is a custom event whose
\* sub-name is in no table.
Unhandled(ev) ==
    \/ ev.name \notin HandledNames
    \/ ev.name = "CUSTOM" /\ ev.sub \notin CustomNames

AbsentId(ev) ==
    \/ /\ ev.name \in {"CHANNEL_ORIGINATE", "CHANNEL_ANSWER", "CHANNEL_BRIDGE",
                       "CHANNEL_HANGUP"}
       /\ ev.uuid \notin sessions
    \/ /\ ev.name = "CUSTOM" /\ ev.sub = "mod_bert::timeout"
       /\ ev.uuid \notin sessions
    \/ /\ ev.name = "CUSTOM" /\ ev.sub = "mod_bert::lost_sync"
       /\ ev.uuid \notin sessions
       /\ ev.uuid \notin DOMAIN peer_sessions
    \/ /\ ev.name = "CHANNEL_CREATE"
       /\ (ev.xhdr = NoId \/ ev.xhdr \notin sessions)

\* C11: an originate, answer, bridge, hangup or bert event whose id is absent
\* from the registry (for lost-sync also from the secondary mapping), and a
\* create-leg event whose correlation header is missing or names an id absent
\* from the registry, leaves every field of the manager and of every session
\* as it was, sends no command and raises nothing: the loop goes on to its
\* test of the terminate flag.
C11_AbsentIdIgnored ==
    [][(EventStep /\ AbsentId(e')) =>
         /\ UNCHANGED mgrvars
         /\ api' = <<>>
         /\ pc' = "check"]_vars

\* A lost-sync event for an id that is no key of the registry and none of the
\* secondary mapping was processed while both held entries.
C11_Witness ==
    /\ pc = "check"
    /\ e.name = "CUSTOM" /\ e.sub = "mod_bert::lost_sync"
    /\ AbsentId(e)
    /\ sessions # {}
    /\ DOMAIN peer_sessions # {}

\* The count of the bucket c of the histogram h.
Bucket(h, c) == IF c \in DOMAIN h THEN h[c] ELSE 0

\* C12: while no KeyboardInterrupt has cut a handler short, the counts of the
\* hangup histogram add up to the number of sessions removed from the
\* registry, and in every state to that number or, when the interrupt fell
\* between the count of line 274 and the removal of line 277, to one more; a
\* hangup event for a session of the registry, handled to its
\* end, removes that session and adds exactly 1 to exactly one bucket, the
\* one of its cause; no other whole step changes the histogram or removes a
\* session.
C12_HistogramCountsHangups ==
    /\ [](Whole => HangupCount = Cardinality(Removed))
    /\ [](HangupCount \in {Cardinality(Removed), Cardinality(Removed) + 1})
    /\ [][HangupStep =>
            /\ sessions' = sessions \ {e'.uuid}
            /\ DOMAIN hangup_causes' \subseteq Causes
            /\ \A c \in Causes :
                 Bucket(hangup_causes', c) =
                     Bucket(hangup_causes, c) + IF c = e'.cause THEN 1 ELSE 0]_vars
    /\ [][(Whole' /\ (hangup_causes' # hangup_causes \/ ~(sessions \subseteq sessions')))
            => HangupStep]_vars

\* Two sessions were removed, and at least one bucket holds a count.
C12_Witness ==
    /\ Cardinality(Removed) = 2
    /\ \E c \in DOMAIN hangup_causes : hangup_causes[c] = 2

\* The scheduler is about to run the action at the head of its queue.
TickDue == pc = "fast_run" /\ queue # <<>> /\ fr_now >= Head(queue)

\* A step that runs the origination tick: line 316 or line 65.
TickStep == RunStart \/ (TickDue /\ FastRunStep)

\* The queue that the tick finds: at line 65 the action has been removed.
QueueAtTick == IF pc = "start" THEN queue ELSE Tail(queue)

\* C13: an action that a running action schedules during a pass of fast_run
\* is not run by that pass: when the pass has run the only action of the
\* queue, whatever that action scheduled is not due at the captured time.
C13_ScheduledDuringPassDeferred ==
    [][(TickDue /\ FastRunStep /\ Tail(queue) = <<>>) =>
         (queue' = <<>> \/ fr_now < Head(queue'))]_vars

\* C14: a tick that runs while paused sends no origination command, inserts
\* no session and schedules itself 1 time unit later; the pause signal
\* changes the pause flag only, and two of them in a row from the unpaused
\* state give back the very same manager; an event that arrives while the
\* flag is set is handled as it would be with the flag clear.
C14_PausedTickAndToggle ==
    /\ [][(paused # 0 /\ TickStep) =>
            /\ originate_cmds' = originate_cmds
            /\ sessions' = sessions
            /\ sess' = sess
            /\ uuids' = uuids
            /\ queue' = enter(QueueAtTick, now, 1)
            /\ pc' # "raised"]_vars
    /\ [][PauseResume =>
            UNCHANGED <<sessions, sess, peer_sessions, hangup_causes,
                        total_originated_sessions, total_answered_sessions,
                        total_failed_sessions, terminate, queue,
                        originate_cmds>>]_vars
    /\ [](paused = 0 => pause_resume_calls(pause_resume_calls(self)) = self)
    /\ [][(paused # 0 /\ EventStep) =>
            Store([process_event([self EXCEPT !.paused = 0], e')
                     EXCEPT !.paused = paused])]_vars

\* A tick has run while paused with a session in the registry, and the
\* scheduler is about to look at the queue again.
C14_Witness ==
    /\ paused >= 2
    /\ pc = "fast_run"
    /\ sessions # {}
    /\ queue # <<>>

\* n of the claim: max(0, min(rate, limit - registry size)).
NTick ==
    LET room == limit - Cardinality(sessions)
        least == IF rate < room THEN rate ELSE room
    IN IF least > 0 THEN least ELSE 0

\* C15: a tick that is not paused and has not reached max_sessions sends
\* exactly n origination commands, inserts n pending sessions under fresh ids
\* and schedules itself time_rate later.
C15_TickOriginatesN ==
    [][(/\ TickStep
        /\ paused = 0
        /\ ~(max_sessions # 0 /\ total_originated_sessions >= max_sessions)) =>
         /\ originate_cmds' = originate_cmds + NTick
         /\ sessions \subseteq sessions'
         /\ Cardinality(sessions') = Cardinality(sessions) + NTick
         /\ \A u \in sessions' \ sessions : u \notin 1..uuids /\ sess'[u] = Session(u)
         /\ queue' = enter(QueueAtTick, now, time_rate)]_vars

\* C16: a tick that finds the connection down originates nothing, and when
\* its reconnect attempt fails the terminate flag is set.
C16_DownTickOriginatesNothing ==
    [][(TickStep /\ paused = 0 /\ ~con) =>
         /\ originate_cmds' = originate_cmds
         /\ sessions' = sessions
         /\ (~con' => terminate')]_vars

\* C17: after whole handlers, for a session S of the registry, every key k
\* of the secondary mapping that maps to S is S.partner_uuid, and
\* S.partner_uuid, when set, is a key of the secondary mapping that maps to S.
C17_PartnerAgreesWithMapping ==
    Whole =>
    /\ \A k \in DOMAIN peer_sessions :
         peer_sessions[k] \in sessions => sess[peer_sessions[k]].partner_uuid = k
    /\ \A u \in sessions :
         sess[u].partner_uuid # NoId =>
             /\ sess[u].partner_uuid \in DOMAIN peer_sessions
             /\ peer_sessions[sess[u].partner_uuid] = u

\* The step of a lost-sync event that resolves to a session.
LostSyncStep ==
    /\ EventStep
    /\ e'.name = "CUSTOM" /\ e'.sub = "mod_bert::lost_sync"
    /\ (e'.uuid \in sessions \/ e'.uuid \in DOMAIN peer_sessions)

\* The session that the event ev resolves to: by id, else by the secondary
\* mapping.
Resolved(ev) == IF ev.uuid \in sessions THEN ev.uuid ELSE peer_sessions[ev.uuid]

\* The peer leg that a lost-sync event ev for the session u is about.
PeerLeg(ev, u) == IF ev.uuid = u THEN sess[u].partner_uuid ELSE ev.uuid

\* C18: every lost-sync event that resolves to a session adds 1 to its
\* bert_sync_lost_cnt; the first one sends exactly two set-variable commands
\* for the lost-sync variable, and when the session has a peer leg one is
\* addressed to the session's own leg and the other to the peer leg; every
\* later one sends no command.
C18_LostSyncCommandsOnce ==
    [][LostSyncStep =>
         /\ sess'[Resolved(e')].bert_sync_lost_cnt =
                sess[Resolved(e')].bert_sync_lost_cnt + 1
         /\ IF sess[Resolved(e')].bert_sync_lost_cnt = 0
            THEN /\ Len(api') = 2
                 /\ \A i \in 1..2 : /\ api'[i].cmd = "uuid_set_var"
                                    /\ api'[i].var = "bert_sync_lost"
                 /\ PeerLeg(e', Resolved(e')) # NoId =>
                      /\ {api'[1].uuid, api'[2].uuid} =
                             {Resolved(e'), PeerLeg(e', Resolved(e'))}
                      /\ \/ PeerLeg(e', Resolved(e')) =
                                sess[Resolved(e')].partner_uuid
                         \/ peer_sessions[PeerLeg(e', Resolved(e'))] = Resolved(e')
            ELSE api' = <<>>]_vars

\* The second lost-sync event of a session came in through its peer leg and
\* sent nothing.
C18_Witness ==
    /\ pc = "check"
    /\ e.name = "CUSTOM" /\ e.sub = "mod_bert::lost_sync"
    /\ e.uuid \in DOMAIN peer_sessions
    /\ e.uuid \notin sessions
    /\ peer_sessions[e.uuid] \in sessions
    /\ sess[peer_sessions[e.uuid]].bert_sync_lost_cnt = 2
    /\ api = <<>>

\* C19: a bert-timeout event whose id is no key of the registry but a key of
\* the secondary mapping sets bert_timeout of the session it maps to.
C19_TimeoutThroughMapping ==
    [][(/\ EventStep
        /\ e'.name = "CUSTOM" /\ e'.sub = "mod_bert::timeout"
        /\ e'.uuid \notin sessions
        /\ e'.uuid \in DOMAIN peer_sessions) =>
         sess'[peer_sessions[e'.uuid]].bert_timeout]_vars

\* C20: after whole handlers, total_answered_sessions is the number of
\* sessions for which an answer or bridge event was processed while they
\* were in the registry, and never exceeds the number of sessions ever
\* inserted.
C20_AnsweredCountsSessions ==
    Whole =>
    /\ total_answered_sessions = Cardinality(answer_seen)
    /\ total_answered_sessions <= uuids

====
